---- MODULE Spec2Model ----
(***************************************************************************)
(* A model of the node graph of the OpenBCI Python framework:              *)
(*   models/node/node.py                      Node (edge registry, run,    *)
(*                                             propagation, disposal)      *)
(*   models/node/generator/file/csvfile.py    CSVFile (a generator node)   *)
(*   config/configuration.py                  Configuration (lazy cache)   *)
(* Every node of the graph is a CSVFile, the one concrete node kind of     *)
(* the sources.  GeneratorNode and FrameworkData are not among the         *)
(* sources; the few operations of theirs that CSVFile calls are modelled   *)
(* from the written specification and are marked so below.                 *)
(***************************************************************************)
EXTENDS Integers, Sequences, FiniteSets, TLC

VARIABLES
    children,               \* Node._children: node -> output name -> list of edge records
    child_input_relation,   \* Node._child_input_relation: node -> child -> list of input names
    output_buffer,          \* Node._output_buffer: node -> output name -> FrameworkData
    input_buffer,           \* Node._input_buffer: node -> input name -> FrameworkData
    csv_file,               \* CSVFile._csv_reader: the data rows of the file not read yet
    csv_closed,             \* CSVFile._csv_file.closed, per node
    channel_column_names,   \* CSVFile.channel_column_names, per node
    disposed,               \* history: dispose() has been called on the node
    log,                    \* history: the call-order log of the last operation
    result,                 \* history: the last operation and how it ended
    parameters,             \* a configuration record handed to CSVFile(parameters)
    constructed,            \* history: how the construction from `parameters` ended
    config,                 \* Configuration.__config
    disk,                   \* the text of config/configuration.json
    accessor_calls,         \* history: accessor calls since the start or the last reset
    cfg_result              \* history: the last Configuration call and how it ended

node_vars == <<children, child_input_relation, output_buffer, input_buffer,
               csv_file, csv_closed, channel_column_names, disposed, log, result>>
construct_vars == <<parameters, constructed>>
config_vars == <<config, disk, accessor_calls, cfg_result>>

vars == <<node_vars, construct_vars, config_vars>>

----------------------------------------------------------------------------
(* Bounds of the model. *)

\* At most this many edges are registered in the whole graph.
MaxEdges == 3

\* The count of accessor calls since the last reset stops at this number.
MaxCalls == 3

\* The interpreter's recursion limit, counted in nested Node.run calls.
MaxDepth == 3

----------------------------------------------------------------------------
(* The nodes and the values that flow. *)

None == "None"

Nodes == {"A", "B", "C"}

\* CSVFile.OUTPUT_MAIN, CSVFile.OUTPUT_TIMESTAMP
OUTPUT_MAIN == "main"
OUTPUT_TIMESTAMP == "timestamp"

\* Mutant of get_outputs: the two outputs declared in the other order.
get_outputs_reversed(n) == <<OUTPUT_TIMESTAMP, OUTPUT_MAIN>>

\* CSVFile._get_outputs: the declared output names, in declaration order.
get_outputs(n) == <<OUTPUT_MAIN, OUTPUT_TIMESTAMP>>

\* GeneratorNode._get_inputs: a generator declares no input.
get_inputs(n) == <<>>

SeqToSet(s) == {s[k] : k \in 1..Len(s)}

\* The file behind each node's file_path: a header and data rows, each row a
\* list of cell texts in header order.  The files of a graph differ in length
\* (two rows, one row, none), so that nodes whose gate opens and nodes whose
\* gate never opens both occur, as parents and as children.
csv_header(n) == <<"ch1", "ch2">>

Fixtures ==
    { [A |-> << <<"10", "11">>, <<"20", "21">> >>, B |-> << <<"30", "31">> >>, C |-> << >>],
      [A |-> << >>, B |-> << <<"30", "31">> >>, C |-> << <<"10", "11">>, <<"20", "21">> >>] }

\* csv.DictReader: each of the given rows as a mapping from the header's names.
DictReader(rows, n) ==
    [r \in 1..Len(rows) |->
        [c \in SeqToSet(csv_header(n)) |->
            rows[r][CHOOSE k \in 1..Len(csv_header(n)) : csv_header(n)[k] = c]]]

\* float(text) of a cell: the number the text denotes.
float(text) ==
    CASE text = "10" -> 10
      [] text = "11" -> 11
      [] text = "20" -> 20
      [] text = "21" -> 21
      [] text = "30" -> 30
      [] text = "31" -> 31

----------------------------------------------------------------------------
(* FrameworkData: a mapping from channel names to sample lists. *)

\* FrameworkData(): no channel.
FrameworkData == <<>>

\* FrameworkData.input_data_on_channel: append samples to a channel, creating it.
input_data_on_channel(fd, channel, samples) ==
    IF channel \in DOMAIN fd
    THEN [fd EXCEPT ![channel] = @ \o samples]
    ELSE fd @@ (channel :> samples)

\* FrameworkData.extend: channel-wise concatenation, creating absent channels.
extend(fd, other) ==
    [c \in (DOMAIN fd) \cup (DOMAIN other) |->
        (IF c \in DOMAIN fd THEN fd[c] ELSE <<>>) \o
        (IF c \in DOMAIN other THEN other[c] ELSE <<>>)]

\* FrameworkData.has_data: some channel holds at least one sample.
has_data(fd) == \E c \in DOMAIN fd : Len(fd[c]) > 0

\* The default channel of a port that carries one unnamed stream.
DEFAULT_CHANNEL == "data"

----------------------------------------------------------------------------
(* CSVFile: the generator's data step. *)

\* CSVFile.timestamp_column_name: no node of the model configures one.
timestamp_column_name(n) == None

\* parameters['channel_column_names'] of each node: B names one channel of
\* the two, A and C leave the names to the file's header.
parameters_channel_column_names(n) == IF n = "B" THEN <<"ch2">> ELSE None

\* CSVFile._should_generate_timestamp
should_generate_timestamp(n) == timestamp_column_name(n) = None

\* One channel of one row (csvfile.py line 94), on the accumulator
\* [main, timestamp, ccn, read, err]: a missing column is a KeyError.
RECURSIVE generate_channels(_, _, _, _)
generate_channels(acc, row, names, k) ==
    IF k > Len(names) \/ acc.err # None THEN acc
    ELSE IF names[k] \notin DOMAIN row
         THEN [acc EXCEPT !.err = "KeyError"]
         ELSE generate_channels(
                [acc EXCEPT !.main = input_data_on_channel(@, names[k], <<float(row[names[k]])>>)],
                row, names, k + 1)

\* Mutant of generate_row: the generated timestamps count the rows from 1.
generate_row_one_based(acc, n, row, row_index) ==
    LET a0 == [acc EXCEPT !.read = @ + 1]
        a1 == IF row_index = 0 /\ a0.ccn = None
              THEN [a0 EXCEPT !.ccn = csv_header(n)]
              ELSE a0
        a2 == generate_channels(a1, row, a1.ccn, 1)
    IN  IF a2.err # None THEN a2
        ELSE [a2 EXCEPT !.timestamp =
                 input_data_on_channel(@, DEFAULT_CHANNEL, <<row_index + 1>>)]

\* The body of the row loop of CSVFile._generate_data for the row at
\* row_index (counted from 0).
generate_row(acc, n, row, row_index) ==
    LET a0 == [acc EXCEPT !.read = @ + 1]
        a1 == IF row_index = 0 /\ a0.ccn = None
              THEN [a0 EXCEPT !.ccn = csv_header(n)]
              ELSE a0
        a2 == generate_channels(a1, row, a1.ccn, 1)
    IN  IF a2.err # None THEN a2
        ELSE IF should_generate_timestamp(n)
             THEN [a2 EXCEPT !.timestamp =
                        input_data_on_channel(@, DEFAULT_CHANNEL, <<row_index>>)]
             ELSE IF timestamp_column_name(n) \notin DOMAIN row
                  THEN [a2 EXCEPT !.err = "KeyError"]
                  ELSE [a2 EXCEPT !.timestamp =
                        input_data_on_channel(@, DEFAULT_CHANNEL, <<row[timestamp_column_name(n)]>>)]

RECURSIVE generate_rows(_, _, _, _)
generate_rows(acc, n, rows, k) ==
    IF k > Len(rows) \/ acc.err # None THEN acc
    ELSE generate_rows(generate_row(acc, n, rows[k], k - 1), n, rows, k + 1)

\* CSVFile._generate_data on the node state: reads the rows the reader has
\* not read yet, closes the file, returns the two buffers.  An error in a row
\* leaves the loop before the file is closed, and the reader stays behind the
\* row that failed.
generate_data(st, n) ==
    LET acc == generate_rows([main |-> FrameworkData, timestamp |-> FrameworkData,
                              ccn |-> st.ccn[n], read |-> 0, err |-> None],
                             n, DictReader(st.rows[n], n), 1)
    IN  [main |-> acc.main, timestamp |-> acc.timestamp, err |-> acc.err,
         st |-> [st EXCEPT !.ccn[n] = acc.ccn,
                           !.rows[n] = SubSeq(@, acc.read + 1, Len(@)),
                           !.closed[n] = IF acc.err = None THEN TRUE ELSE @]]

\* Mutant of is_generate_data_condition_satisfied: data is generated in every
\* run, the file closed or not.
generate_condition_always(st, n) == TRUE

\* CSVFile._is_generate_data_condition_satisfied
is_generate_data_condition_satisfied(st, n) == ~st.closed[n]

\* Mutant of is_next_node_call_enabled: a gate that is never open.
gate_never_open(st, n) == FALSE

\* Mutant of is_next_node_call_enabled: a gate that is always open.
gate_always_open(st, n) == TRUE

\* CSVFile._is_next_node_call_enabled
is_next_node_call_enabled(st, n) == has_data(st.ob[n][OUTPUT_TIMESTAMP])

\* Node._insert_new_output_data
insert_new_output_data(st, n, data, output_name) ==
    [st EXCEPT !.ob[n][output_name] = extend(@, data)]

\* GeneratorNode._run: generate while the condition holds and put each
\* generated buffer in the output buffer of its name; the input is not read.
generator_run(st, n) ==
    IF ~is_generate_data_condition_satisfied(st, n) THEN st
    ELSE LET g == generate_data(st, n)
         IN  IF g.err # None THEN [g.st EXCEPT !.err = g.err]
             ELSE insert_new_output_data(
                    insert_new_output_data(g.st, n, g.main, OUTPUT_MAIN),
                    n, g.timestamp, OUTPUT_TIMESTAMP)

----------------------------------------------------------------------------
(* Node.run and Node._call_children. *)

\* Mutant of edges_in_call_order: a child bound through several edges is
\* visited through the first of them alone.
edges_once_per_child(n, k) ==
    LET all == [j \in 1..Len(children[n][OUTPUT_MAIN]) |->
                   [output |-> OUTPUT_MAIN,
                    node   |-> children[n][OUTPUT_MAIN][j].node,
                    input  |-> children[n][OUTPUT_MAIN][j].input]]
               \o [j \in 1..Len(children[n][OUTPUT_TIMESTAMP]) |->
                   [output |-> OUTPUT_TIMESTAMP,
                    node   |-> children[n][OUTPUT_TIMESTAMP][j].node,
                    input  |-> children[n][OUTPUT_TIMESTAMP][j].input]]
        first == {p \in 1..Len(all) : \A q \in 1..(p - 1) : all[q].node # all[p].node}
    IN  [r \in 1..Cardinality(first) |->
            all[CHOOSE p \in first : Cardinality({q \in first : q < p}) = r - 1]]

\* The edges of node n in the order _call_children visits them: for each
\* output name in declared order, the edges of that output in list order.
RECURSIVE edges_in_call_order(_, _)
edges_in_call_order(n, k) ==
    IF k > Len(get_outputs(n)) THEN <<>>
    ELSE [j \in 1..Len(children[n][get_outputs(n)[k]]) |->
             [output |-> get_outputs(n)[k],
              node   |-> children[n][get_outputs(n)[k]][j].node,
              input  |-> children[n][get_outputs(n)[k]][j].input]]
         \o edges_in_call_order(n, k + 1)

RECURSIVE run(_, _, _, _, _, _)
RECURSIVE call_edges(_, _, _, _, _, _)

\* Node._call_children: one child['run'](output) per edge, each with the
\* current content of the edge's output buffer; an error ends the loop.
call_children(st, n, id, depth) ==
    call_edges(st, n, edges_in_call_order(n, 1), 1, id, depth)

\* Mutant of call_edges: every child is started in its own thread and the
\* threads are joined afterwards, so a child's run begins while its earlier
\* siblings are still running.
call_edges_threads(st, n, edges, k, id, depth) ==
    LET base == Len(st.log)
        started == [j \in 1..Len(edges) |->
                      [ev |-> "call", node |-> edges[j].node, id |-> base + j, parent |-> id,
                       output |-> edges[j].output, input |-> edges[j].input,
                       data |-> st.ob[n][edges[j].output]]]
        joined == [j \in 1..Len(edges) |->
                      [ev |-> "ret", node |-> edges[j].node, id |-> base + j]]
    IN  [st EXCEPT !.log = @ \o started \o joined]

\* Mutant of call_edges: a child is handed an empty buffer in place of the
\* content of the output buffer.
call_edges_fresh(st, n, edges, k, id, depth) ==
    IF k > Len(edges) \/ st.err # None THEN st
    ELSE call_edges(run(st, edges[k].node, FrameworkData, edges[k].input,
                        [id |-> id, output |-> edges[k].output], depth + 1),
                    n, edges, k + 1, id, depth)

\* Mutant of call_edges: an error of a child is caught and the next edge is
\* called.
call_edges_catching(st, n, edges, k, id, depth) ==
    IF k > Len(edges) THEN st
    ELSE call_edges([run(st, edges[k].node, st.ob[n][edges[k].output], edges[k].input,
                         [id |-> id, output |-> edges[k].output], depth + 1)
                        EXCEPT !.err = None],
                    n, edges, k + 1, id, depth)

call_edges(st, n, edges, k, id, depth) ==
    IF k > Len(edges) \/ st.err # None THEN st
    ELSE call_edges(run(st, edges[k].node, st.ob[n][edges[k].output], edges[k].input,
                        [id |-> id, output |-> edges[k].output], depth + 1),
                    n, edges, k + 1, id, depth)

\* The external caller of a run, as the caller of a frame.
External == [id |-> 0, output |-> None]

\* Mutant of run: a node discards what its output buffers hold when it is
\* run.
run_draining(st, n, data, input_name, caller, depth) ==
    IF depth > MaxDepth THEN [st EXCEPT !.err = "RecursionError"]
    ELSE
    LET id == Len(st.log) + 1
        s0 == [st EXCEPT !.log = Append(@, [ev |-> "call", node |-> n, id |-> id,
                                           parent |-> caller.id, output |-> caller.output,
                                           input |-> input_name, data |-> data]),
                         !.ob[n] = [o \in SeqToSet(get_outputs(n)) |-> FrameworkData]]
        s1 == generator_run(s0, n)
        s2 == IF s1.err # None THEN s1
              ELSE IF ~is_next_node_call_enabled(s1, n) THEN s1
              ELSE call_children(s1, n, id, depth)
    IN  IF s2.err # None THEN s2
        ELSE [s2 EXCEPT !.log = Append(@, [ev |-> "ret", node |-> n, id |-> id])]

\* Node.run(data, input_name), called by the frame caller.id through the
\* parent's output caller.output.  The log gets a "call" event when the call
\* begins and a "ret" event when it returns; an error leaves without "ret".
run(st, n, data, input_name, caller, depth) ==
    IF depth > MaxDepth THEN [st EXCEPT !.err = "RecursionError"]
    ELSE
    LET id == Len(st.log) + 1
        s0 == [st EXCEPT !.log = Append(@, [ev |-> "call", node |-> n, id |-> id,
                                           parent |-> caller.id, output |-> caller.output,
                                           input |-> input_name, data |-> data])]
        s1 == generator_run(s0, n)
        s2 == IF s1.err # None THEN s1
              ELSE IF ~is_next_node_call_enabled(s1, n) THEN s1
              ELSE call_children(s1, n, id, depth)
    IN  IF s2.err # None THEN s2
        ELSE [s2 EXCEPT !.log = Append(@, [ev |-> "ret", node |-> n, id |-> id])]

----------------------------------------------------------------------------
(* Edge registration. *)

\* Node.add_child on the pair [children, relation] of node p: the outcome
\* [children, relation, err].  The child's key is entered in the reverse map
\* first; nothing ever puts an input name in its list.
add_child(ch, rel, output_name, node, input_name) ==
    LET rel1 == IF node \in DOMAIN rel THEN rel ELSE rel @@ (node :> <<>>)
    IN  IF input_name \in SeqToSet(rel1[node])
        THEN [children |-> ch, relation |-> rel1, err |-> "InvalidParameterValue.already_added"]
        ELSE IF output_name \notin DOMAIN ch
        THEN [children |-> ch, relation |-> rel1, err |-> "KeyError"]
        ELSE [children |-> [ch EXCEPT ![output_name] =
                                Append(@, [node |-> node, input |-> input_name])],
              relation |-> rel1, err |-> None]

\* The number of edges registered in the whole graph.
RECURSIVE SumOver(_, _)
SumOver(f, S) ==
    IF S = {} THEN 0
    ELSE LET x == CHOOSE x \in S : TRUE IN f[x] + SumOver(f, S \ {x})

EdgeCount ==
    SumOver([n \in Nodes |-> SumOver([o \in DOMAIN children[n] |-> Len(children[n][o])],
                                     DOMAIN children[n])], Nodes)

----------------------------------------------------------------------------
(* Disposal. *)

\* Node._clear_output_buffer, Node._clear_input_buffer
clear_output_buffer(n) == [k \in SeqToSet(get_outputs(n)) |-> FrameworkData]
clear_input_buffer(n) == [k \in SeqToSet(get_inputs(n)) |-> FrameworkData]

\* Mutant of dispose: the file is closed without asking whether it is open,
\* and closing a closed handle is an error.
dispose_unguarded(st, n) ==
    [st EXCEPT !.ob[n] = [k \in SeqToSet(get_outputs(n)) |-> FrameworkData],
               !.ib[n] = [k \in SeqToSet(get_inputs(n)) |-> FrameworkData],
               !.closed[n] = TRUE,
               !.disposed[n] = TRUE,
               !.err = IF st.closed[n] THEN "ValueError" ELSE @,
               !.log = Append(@, [ev |-> "dispose", node |-> n])]

\* CSVFile.dispose on the node state: both buffer maps are replaced by empty
\* ones and the file is closed if it is open.
dispose(st, n) ==
    [st EXCEPT !.ob[n] = clear_output_buffer(n),
               !.ib[n] = clear_input_buffer(n),
               !.closed[n] = IF ~@ THEN TRUE ELSE @,
               !.disposed[n] = TRUE,
               !.log = Append(@, [ev |-> "dispose", node |-> n])]

\* Node._dispose_all_children: child['dispose'](child) per edge, which is
\* the child's own dispose().
RECURSIVE dispose_edges(_, _, _)
dispose_edges(st, edges, k) ==
    IF k > Len(edges) THEN st
    ELSE dispose_edges(dispose(st, edges[k].node), edges, k + 1)

dispose_all_children(st, n) == dispose_edges(st, edges_in_call_order(n, 1), 1)

\* Node.dispose_all
dispose_all(st, n) == dispose(dispose_all_children(st, n), n)

----------------------------------------------------------------------------
(* The state machine. *)

\* The node state the operations above work on, with an empty log.
NodeState ==
    [ob |-> output_buffer, ib |-> input_buffer, closed |-> csv_closed,
     rows |-> csv_file, ccn |-> channel_column_names, disposed |-> disposed,
     log |-> <<>>, err |-> None]

SetNodeState(s) ==
    /\ output_buffer' = s.ob
    /\ input_buffer' = s.ib
    /\ csv_closed' = s.closed
    /\ csv_file' = s.rows
    /\ channel_column_names' = s.ccn
    /\ disposed' = s.disposed
    /\ log' = s.log

\* Node.__init__ and CSVFile.__init__ of every node: empty buffers, empty
\* edge lists, an empty reverse map, the file open.
InitNodes ==
    /\ children = [n \in Nodes |-> [o \in SeqToSet(get_outputs(n)) |-> <<>>]]
    /\ child_input_relation = [n \in Nodes |-> <<>>]
    /\ output_buffer = [n \in Nodes |-> clear_output_buffer(n)]
    /\ input_buffer = [n \in Nodes |-> clear_input_buffer(n)]
    /\ csv_file \in Fixtures
    /\ csv_closed = [n \in Nodes |-> FALSE]
    /\ channel_column_names = [n \in Nodes |-> parameters_channel_column_names(n)]
    /\ disposed = [n \in Nodes |-> FALSE]
    /\ log = <<>>
    /\ result = [op |-> "init", node |-> None, arg |-> None, err |-> None]

\* The output names and input names a caller passes to add_child.
ArgOutputs == {OUTPUT_MAIN, OUTPUT_TIMESTAMP, "other"}
ArgInputs == {"in1", "in2"}

\* p.add_child(output_name, node, input_name)
AddChild(p, output_name, node, input_name) ==
    LET r == add_child(children[p], child_input_relation[p], output_name, node, input_name)
    IN  /\ EdgeCount < MaxEdges \/ r.err # None
        /\ children' = [children EXCEPT ![p] = r.children]
        /\ child_input_relation' = [child_input_relation EXCEPT ![p] = r.relation]
        /\ log' = <<>>
        /\ result' = [op |-> "add_child", node |-> None,
                      arg |-> output_name \in SeqToSet(get_outputs(p)), err |-> r.err]
        /\ UNCHANGED <<output_buffer, input_buffer, csv_file, csv_closed,
                       channel_column_names, disposed, construct_vars, config_vars>>

\* n.run() called from outside, with no data and no input name.
Run(n) ==
    LET s == run(NodeState, n, None, None, External, 1)
    IN  /\ SetNodeState(s)
        /\ result' = [op |-> "run", node |-> n, arg |-> None, err |-> s.err]
        /\ UNCHANGED <<children, child_input_relation, construct_vars, config_vars>>

\* n.dispose()
Dispose(n) ==
    /\ SetNodeState(dispose(NodeState, n))
    /\ result' = [op |-> "dispose", node |-> n, arg |-> disposed[n], err |-> None]
    /\ UNCHANGED <<children, child_input_relation, construct_vars, config_vars>>

\* n.dispose_all()
DisposeAll(n) ==
    /\ SetNodeState(dispose_all(NodeState, n))
    /\ result' = [op |-> "dispose_all", node |-> n, arg |-> None, err |-> None]
    /\ UNCHANGED <<children, child_input_relation, construct_vars, config_vars>>

----------------------------------------------------------------------------
(* Construction: CSVFile(parameters). *)

\* A configuration record is a mapping from the names of the fields it holds
\* to their values; a value is its Python type and its text.
Fields ==
    {"module", "type", "name", "buffer_options", "outputs", "sampling_frequency",
     "file_path", "timestamp_column_name", "channel_column_names"}

ValidParameters ==
    [module |-> [type |-> "str", text |-> "models.node.generator.file.csvfile"],
     type |-> [type |-> "str", text |-> "CSVFile"],
     name |-> [type |-> "str", text |-> "source"],
     buffer_options |-> [type |-> "dict", text |-> "{}"],
     outputs |-> [type |-> "dict", text |-> "{}"],
     sampling_frequency |-> [type |-> "int", text |-> "250"],
     file_path |-> [type |-> "str", text |-> "data.csv"],
     timestamp_column_name |-> [type |-> "str", text |-> "t"],
     channel_column_names |-> [type |-> "list", text |-> "['ch1']"]]

\* The other values the fields take in the model.
OtherValues(f) ==
    CASE f = "sampling_frequency" ->
            {[type |-> "int", text |-> "0"], [type |-> "float", text |-> "-1.5"],
             [type |-> "str", text |-> "250"]}
      [] f = "file_path" ->
            {[type |-> "str", text |-> "data.txt"], [type |-> "str", text |-> "absent.csv"],
             [type |-> "int", text |-> "7"]}
      [] f = "timestamp_column_name" -> {[type |-> "int", text |-> "3"]}
      [] f = "channel_column_names" ->
            {[type |-> "list", text |-> "[]"], [type |-> "list", text |-> "['ch1', 2]"],
             [type |-> "str", text |-> "ch1"]}
      [] f = "module" -> {[type |-> "str", text |-> "elsewhere"]}
      [] OTHER -> {}

\* os.path.splitext(path)[1]
splitext(text) ==
    CASE text = "data.csv" -> ".csv"
      [] text = "absent.csv" -> ".csv"
      [] text = "data.txt" -> ".txt"
      [] OTHER -> ""

\* The files that exist: open(path) of another one raises FileNotFoundError.
FileExists(text) == text \in {"data.csv", "data.txt"}

\* len(list) and the element types of a list value.
ListLen(text) == CASE text = "[]" -> 0 [] text = "['ch1']" -> 1 [] OTHER -> 2
ListElementTypes(text) ==
    CASE text = "[]" -> {}
      [] text = "['ch1']" -> {"str"}
      [] text = "['ch1', 'ch3']" -> {"str"}
      [] OTHER -> {"str", "int"}

MissingParameterError(parameter) ==
    [kind |-> "MissingParameterError", parameter |-> parameter, cause |-> None]
InvalidParameterValue(parameter, cause) ==
    [kind |-> "InvalidParameterValue", parameter |-> parameter, cause |-> cause]
KeyError(key) == [kind |-> "KeyError", parameter |-> key, cause |-> None]
ValueError(message) == [kind |-> "ValueError", parameter |-> message, cause |-> None]
NoError == [kind |-> None, parameter |-> None, cause |-> None]

\* Node._validate_parameters: the checks of the base class, in their order.  A
\* module value without 'models.node.' builds an error that is never raised.
node_validate_parameters(P) ==
    IF "module" \notin DOMAIN P THEN ValueError("error.missing.node.module")
    ELSE IF "type" \notin DOMAIN P THEN ValueError("error.missing.node.type")
    ELSE IF "buffer_options" \notin DOMAIN P THEN ValueError("error.missing.node.buffer_options")
    ELSE IF "outputs" \notin DOMAIN P THEN ValueError("error.missing.node.outputs")
    ELSE IF "name" \notin DOMAIN P THEN ValueError("error.missing.node.name")
    ELSE NoError

\* CSVFile._validate_parameters: the override, which does not call the base
\* class's checks.
csv_validate_parameters(P) ==
    IF "sampling_frequency" \notin DOMAIN P THEN MissingParameterError("sampling_frequency")
    ELSE IF "file_path" \notin DOMAIN P THEN MissingParameterError("file_path")
    ELSE IF P["sampling_frequency"].type \notin {"float", "int"}
         THEN InvalidParameterValue("sampling_frequency", "must_be_number")
    ELSE IF P["file_path"].type # "str"
         THEN InvalidParameterValue("file_path", "must_be_string")
    ELSE IF splitext(P["file_path"].text) # ".csv"
         THEN InvalidParameterValue("file_path", "must_be_csv_file")
    ELSE IF "timestamp_column_name" \in DOMAIN P /\ P["timestamp_column_name"].type # "str"
         THEN InvalidParameterValue("timestamp_column_name", "must_be_string")
    ELSE IF "channel_column_names" \notin DOMAIN P THEN NoError
    ELSE IF P["channel_column_names"].type # "list"
         THEN InvalidParameterValue("channel_column_names", "must_be_list")
    ELSE IF ListLen(P["channel_column_names"].text) < 1
         THEN InvalidParameterValue("channel_column_names", "is_empty")
    ELSE IF ListElementTypes(P["channel_column_names"].text) # {"str"}
         THEN InvalidParameterValue("channel_column_names", "must_contain_strings_only")
    ELSE NoError

\* Node.__init__ for a CSVFile: self._validate_parameters is the override of
\* CSVFile; then the three subscripts of parameters, each a KeyError when the
\* key is absent.  'outputs' and 'module' are never looked at.
node_init(P) ==
    IF csv_validate_parameters(P) # NoError THEN csv_validate_parameters(P)
    ELSE IF "buffer_options" \notin DOMAIN P THEN KeyError("buffer_options")
    ELSE IF "type" \notin DOMAIN P THEN KeyError("type")
    ELSE IF "name" \notin DOMAIN P THEN KeyError("name")
    ELSE NoError

\* CSVFile._init_csv_reader: open(self.file_path)
init_csv_reader(P) ==
    IF ~FileExists(P["file_path"].text)
    THEN [kind |-> "FileNotFoundError", parameter |-> "file_path", cause |-> None]
    ELSE NoError

\* GeneratorNode.__init__: hands the record to Node.__init__.
generator_init(P) == node_init(P)

\* CSVFile.__init__: the base constructors, the validation once more, the
\* reader.  The outcome is the error raised, or none and a node.
csv_init(P) ==
    LET e == IF generator_init(P) # NoError THEN generator_init(P)
             ELSE IF csv_validate_parameters(P) # NoError THEN csv_validate_parameters(P)
             ELSE init_csv_reader(P)
    IN  [done |-> TRUE, err |-> e, node |-> e = NoError]

InitConstruct ==
    /\ parameters = ValidParameters
    /\ constructed = [done |-> FALSE, err |-> NoError, node |-> FALSE]

\* The caller removes a field from the record, or gives a field a value.
RemoveField(f) ==
    /\ f \in DOMAIN parameters
    /\ parameters' = [g \in (DOMAIN parameters) \ {f} |-> parameters[g]]
    /\ constructed' = [done |-> FALSE, err |-> NoError, node |-> FALSE]
    /\ UNCHANGED <<node_vars, config_vars>>

SetField(f, v) ==
    /\ parameters' = [g \in (DOMAIN parameters) \cup {f} |-> IF g = f THEN v ELSE parameters[g]]
    /\ constructed' = [done |-> FALSE, err |-> NoError, node |-> FALSE]
    /\ UNCHANGED <<node_vars, config_vars>>

\* CSVFile(parameters), or CSVFile.from_config_json(parameters)
Construct ==
    /\ constructed' = csv_init(parameters)
    /\ UNCHANGED <<parameters, node_vars, config_vars>>

NextConstruct ==
    \/ \E f \in Fields : RemoveField(f)
    \/ \E f \in Fields : \E v \in OtherValues(f) \cup {ValidParameters[f]} : SetField(f, v)
    \/ Construct

----------------------------------------------------------------------------
(* Configuration: the lazily loaded, process-wide document. *)

\* The texts config/configuration.json may hold; "absent" stands for no file.
DiskTexts == {"absent", "{nodes", "null", "{}", "doc1", "doc2"}

\* A JSON value: Python's None, or a dict with or without the key 'nodes'.
JsonNone == [type |-> "NoneType", has_nodes |-> FALSE, root |-> None, common |-> None]
JsonDict(has_nodes, root, common) ==
    [type |-> "dict", has_nodes |-> has_nodes, root |-> root, common |-> common]

\* json.load of the file's text: the value, or the error it raises.
json_load(text) ==
    CASE text = "{nodes" -> [err |-> "JSONDecodeError", value |-> JsonNone]
      [] text = "null" -> [err |-> None, value |-> JsonNone]
      [] text = "{}" -> [err |-> None, value |-> JsonDict(FALSE, None, None)]
      [] text = "doc1" -> [err |-> None, value |-> JsonDict(TRUE, "root1", "common1")]
      [] text = "doc2" -> [err |-> None, value |-> JsonDict(TRUE, "root2", "common2")]

\* Mutant of config_load: the document is loaded again on every call.
config_reloading(cache, text) ==
    IF text = "absent"
    THEN [config |-> cache, read |-> FALSE, err |-> "FileNotFoundError"]
    ELSE IF json_load(text).err # None
         THEN [config |-> cache, read |-> TRUE, err |-> json_load(text).err]
         ELSE [config |-> json_load(text).value, read |-> TRUE, err |-> None]

\* Configuration._config on the cache and the file's text: the cache after
\* the call, whether the file was read, and the error raised.
config_load(cache, text) ==
    IF cache # JsonNone THEN [config |-> cache, read |-> FALSE, err |-> None]
    ELSE IF text = "absent"
         THEN [config |-> cache, read |-> FALSE, err |-> "FileNotFoundError"]
    ELSE IF json_load(text).err # None
         THEN [config |-> cache, read |-> TRUE, err |-> json_load(text).err]
         ELSE [config |-> json_load(text).value, read |-> TRUE, err |-> None]

\* Configuration.get_root_nodes / get_common_nodes: _config()['nodes'][group]
get_nodes(cache, text, group) ==
    LET c == config_load(cache, text)
    IN  IF c.err # None THEN [config |-> c.config, read |-> c.read, err |-> c.err, value |-> None]
        ELSE IF c.config = JsonNone
             THEN [config |-> c.config, read |-> c.read, err |-> "TypeError", value |-> None]
        ELSE IF ~c.config.has_nodes
             THEN [config |-> c.config, read |-> c.read, err |-> "KeyError", value |-> None]
        ELSE [config |-> c.config, read |-> c.read, err |-> None,
              value |-> IF group = "root" THEN c.config.root ELSE c.config.common]

\* Configuration.__config is None when the class is loaded; the file holds a
\* document.
InitConfig ==
    /\ config = JsonNone
    /\ disk = "doc1"
    /\ accessor_calls = 0
    /\ cfg_result = [op |-> "init", cached |-> FALSE, read |-> FALSE, err |-> None, value |-> None]

\* Configuration.get_root_nodes() and Configuration.get_common_nodes()
GetNodes(group) ==
    LET r == get_nodes(config, disk, group)
    IN  /\ config' = r.config
        /\ accessor_calls' = IF accessor_calls < MaxCalls THEN accessor_calls + 1 ELSE accessor_calls
        /\ cfg_result' = [op |-> "get_" \o group \o "_nodes", cached |-> config # JsonNone,
                          read |-> r.read, err |-> r.err, value |-> r.value]
        /\ UNCHANGED <<disk, node_vars, construct_vars>>

\* Configuration.reset_config()
ResetConfig ==
    /\ config' = JsonNone
    /\ accessor_calls' = 0
    /\ cfg_result' = [op |-> "reset_config", cached |-> config # JsonNone, read |-> FALSE,
                      err |-> None, value |-> None]
    /\ UNCHANGED <<disk, node_vars, construct_vars>>

\* Somebody writes, or deletes, config/configuration.json.
WriteFile(text) ==
    /\ disk' = text
    /\ disk' # disk
    /\ cfg_result' = [op |-> "write", cached |-> config # JsonNone, read |-> FALSE,
                      err |-> None, value |-> None]
    /\ UNCHANGED <<config, accessor_calls, node_vars, construct_vars>>

NextConfig ==
    \/ GetNodes("root")
    \/ GetNodes("common")
    \/ ResetConfig
    \/ \E text \in DiskTexts : WriteFile(text)

----------------------------------------------------------------------------
(* The specifications. *)

Init == InitNodes /\ InitConstruct /\ InitConfig

\* The graphs of Spec are acyclic: an edge goes from a node to a later one.
Before(p, node) == <<p, node>> \in {<<"A", "B">>, <<"A", "C">>, <<"B", "C">>}

Next ==
    \/ \E p \in Nodes, node \in Nodes :
         /\ Before(p, node)
         /\ \E o \in SeqToSet(get_outputs(p)) : AddChild(p, o, node, "in1")
    \/ \E n \in Nodes : Run(n)
    \/ \E n \in Nodes : Dispose(n)
    \/ \E n \in Nodes : DisposeAll(n)

Spec == Init /\ [][Next]_vars

\* Edge registration alone, on the registry of one parent (the registries of
\* different nodes share nothing), with every output name and input name a
\* caller may pass, declared or not.
GraphParents == {"A"}

NextGraph ==
    \E p \in GraphParents, node \in Nodes, o \in ArgOutputs, i \in ArgInputs :
        AddChild(p, o, node, i)

SpecGraph == Init /\ [][NextGraph]_vars

\* A graph in which node B is configured with the channel names ch1 and ch3,
\* of which the header of its file holds the first alone.
MisnamedParameters ==
    [ValidParameters EXCEPT !["channel_column_names"] =
                                [type |-> "list", text |-> "['ch1', 'ch3']"]]

misnamed_channel_column_names(n) == IF n = "B" THEN <<"ch1", "ch3">> ELSE None

InitMisnamed ==
    /\ children = [n \in Nodes |-> [o \in SeqToSet(get_outputs(n)) |-> <<>>]]
    /\ child_input_relation = [n \in Nodes |-> <<>>]
    /\ output_buffer = [n \in Nodes |-> clear_output_buffer(n)]
    /\ input_buffer = [n \in Nodes |-> clear_input_buffer(n)]
    /\ csv_file \in Fixtures
    /\ csv_closed = [n \in Nodes |-> FALSE]
    /\ channel_column_names = [n \in Nodes |-> misnamed_channel_column_names(n)]
    /\ disposed = [n \in Nodes |-> FALSE]
    /\ log = <<>>
    /\ result = [op |-> "init", node |-> None, arg |-> None, err |-> None]
    /\ parameters = MisnamedParameters
    /\ constructed = csv_init(MisnamedParameters)
    /\ InitConfig

SpecMisnamed == InitMisnamed /\ [][Next]_vars

\* Graphs with cycles: the edges a caller may register close a cycle of two
\* nodes (A, B) and a cycle of three (A, B, C).
CyclePairs == {<<"A", "B">>, <<"B", "A">>, <<"B", "C">>, <<"C", "A">>}

NextCycle ==
    \/ \E e \in CyclePairs : AddChild(e[1], OUTPUT_MAIN, e[2], "in1")
    \/ \E n \in Nodes : Run(n)
    \/ \E n \in Nodes : Dispose(n)

SpecCycle == Init /\ [][NextCycle]_vars

\* Construction alone.
SpecConstruct == Init /\ [][NextConstruct]_vars

\* The configuration cache alone.
SpecConfig == Init /\ [][NextConfig]_vars

----------------------------------------------------------------------------
(* Reading the log of the last operation. *)

\* The positions of the log's "call" events; a call's id is its position.
CallEvents == {i \in 1..Len(log) : log[i].ev = "call"}

\* The call at position k has returned before position j.
ReturnedBefore(k, j) == \E r \in 1..(j - 1) : log[r].ev = "ret" /\ log[r].id = k

\* The calls a frame made, in the order it made them, as edge records.
ChildCalls(i) ==
    LET IsChild(e) == e.ev = "call" /\ e.parent = i
        calls == SelectSeq(log, IsChild)
    IN  [k \in 1..Len(calls) |->
            [output |-> calls[k].output, node |-> calls[k].node, input |-> calls[k].input]]

\* The edges of a node on one output, in list order, as edge records.
EdgesOn(n, o) ==
    [k \in 1..Len(children[n][o]) |->
        [output |-> o, node |-> children[n][o][k].node, input |-> children[n][o][k].input]]

\* The nodes a node's edges lead to.
ChildNodes(n) ==
    UNION {{children[n][o][k].node : k \in 1..Len(children[n][o])} : o \in DOMAIN children[n]}

\* The nodes reachable from the set S through at most `steps` more edges.
RECURSIVE ReachableFrom(_, _)
ReachableFrom(S, steps) ==
    IF steps = 0 THEN S
    ELSE ReachableFrom(S \cup UNION {ChildNodes(m) : m \in S}, steps - 1)

\* The nodes below n: those reachable from n through one edge or more.
Descendants(n) == ReachableFrom(ChildNodes(n), Cardinality(Nodes))

----------------------------------------------------------------------------
(* Edge registration: claims C1 and C8. *)

\* C1: a (child, input name) pair is bound at most once across all the output
\* lists of a node: once add_child(o1, C, i) has succeeded, a later
\* add_child(o2, C, i) is refused, so no pair occurs twice in a registry.
C1_BoundAtMostOnce ==
    \A p \in Nodes :
        \A o1 \in DOMAIN children[p], o2 \in DOMAIN children[p] :
            \A k1 \in 1..Len(children[p][o1]), k2 \in 1..Len(children[p][o2]) :
                children[p][o1][k1] = children[p][o2][k2] => (o1 = o2 /\ k1 = k2)

\* Node.check_output: the error add_child is to raise for an undeclared output.
check_output(n, output_name) ==
    IF output_name \notin SeqToSet(get_outputs(n))
    THEN "ValueError.invalid.value.node.output"
    ELSE None

\* Node.check_input: the error run is to raise for an undeclared input.
check_input(n, input_name) ==
    IF input_name \notin SeqToSet(get_inputs(n))
    THEN "ValueError.invalid.value.node.input"
    ELSE None

\* C8: an undeclared port is refused with the invalid-value error of
\* check_output / check_input: add_child with an output name the node does not
\* declare ends with that error.
C8_UnknownPortRejected ==
    (result.op = "add_child" /\ ~result.arg) =>
        \E p \in GraphParents, o \in ArgOutputs : result.err = check_output(p, o) /\ result.err # None

----------------------------------------------------------------------------
(* Propagation: claims C2, C3 and C6. *)

\* C2: propagation is depth-first: when a frame calls two children through
\* one output, every run that began between the beginning of the first
\* child's run and the beginning of the second's (the first child and its
\* whole subtree) has returned before the second child's run begins.
C2_DepthFirst ==
    result.op = "run" =>
        \A i \in CallEvents, j \in CallEvents :
            (i < j /\ log[i].parent = log[j].parent /\ log[i].output = log[j].output) =>
                \A k \in CallEvents : (i <= k /\ k < j) => ReturnedBefore(k, j)

\* A run in which a first child called a child of its own before its sibling
\* on the same output was called.
C2_Witness ==
    /\ result.op = "run"
    /\ \E i \in CallEvents, j \in CallEvents, k \in CallEvents :
         /\ i < k /\ k < j
         /\ log[i].parent = log[j].parent /\ log[i].output = log[j].output
         /\ log[k].parent = i

\* C3, on the log: the children a frame calls are its edges on "main" in list
\* order followed by its edges on "timestamp" in list order.
C3_CallOrder ==
    (result.op = "run" /\ result.err = None) =>
        \A i \in CallEvents :
            ChildCalls(i) # <<>> =>
                ChildCalls(i) = EdgesOn(log[i].node, OUTPUT_MAIN)
                                \o EdgesOn(log[i].node, OUTPUT_TIMESTAMP)

\* C3, on the registry: list order is registration order, as an edge list
\* changes only by a new edge at its end.
C3_AppendOnly ==
    \A p \in Nodes : \A o \in DOMAIN children[p] :
        \/ children'[p][o] = children[p][o]
        \/ /\ Len(children'[p][o]) = Len(children[p][o]) + 1
           /\ SubSeq(children'[p][o], 1, Len(children[p][o])) = children[p][o]

\* C3: child invocations follow declared output order first and registration
\* order second.
C3_PortThenRegistrationOrder == []C3_CallOrder /\ [][C3_AppendOnly]_vars

\* A run whose first frame called children through both outputs, two of them
\* through one output.
C3_Witness ==
    /\ result.op = "run"
    /\ \E i \in CallEvents, j \in CallEvents, k \in CallEvents :
         /\ i < j /\ j < k
         /\ log[i].parent = 1 /\ log[j].parent = 1 /\ log[k].parent = 1
         /\ log[i].output = OUTPUT_MAIN /\ log[k].output = OUTPUT_TIMESTAMP

\* C6, on the log: a frame calls children exactly when, after its own step,
\* its "timestamp" output holds a sample (and it has an edge to call).
C6_GateDecides ==
    result.op = "run" =>
        \A i \in CallEvents :
            (ChildCalls(i) # <<>>) <=>
                (/\ \E c \in DOMAIN output_buffer[log[i].node][OUTPUT_TIMESTAMP] :
                        Len(output_buffer[log[i].node][OUTPUT_TIMESTAMP][c]) >= 1
                 /\ ChildNodes(log[i].node) # {})

\* C6, on the step: a run whose gate stays shut changes no other node.
C6_ShutGateTouchesNothing ==
    \A n \in Nodes :
        (/\ result'.op = "run" /\ result'.node = n
         /\ \A c \in DOMAIN output_buffer'[n][OUTPUT_TIMESTAMP] :
                Len(output_buffer'[n][OUTPUT_TIMESTAMP][c]) = 0)
        => \A m \in Nodes \ {n} :
              /\ output_buffer'[m] = output_buffer[m]
              /\ input_buffer'[m] = input_buffer[m]
              /\ csv_closed'[m] = csv_closed[m]

\* C6: children are invoked only behind the gate, which is evaluated after the
\* node's own step and is open exactly when "timestamp" holds a sample.
C6_GatedPropagation == []C6_GateDecides /\ [][C6_ShutGateTouchesNothing]_vars

\* A run of a node with children whose gate stayed shut: no child was called
\* and a child's file is still open.
C6_Witness ==
    /\ result.op = "run"
    /\ Len(log) = 2
    /\ \E c \in ChildNodes(result.node) : ~csv_closed[c]

----------------------------------------------------------------------------
(* Disposal: claims C4, C5 and C9. *)

\* C4: dispose_all() of a node disposes every node reachable through its
\* edges before it disposes the node itself.
C4_DisposeAllReachesAll ==
    result.op = "dispose_all" =>
        /\ log[Len(log)] = [ev |-> "dispose", node |-> result.node]
        /\ \A m \in Descendants(result.node) :
              \E i \in 1..(Len(log) - 1) : log[i] = [ev |-> "dispose", node |-> m]

\* C5: a run() of a node on which dispose() has been called fails with a
\* NodeDisposed error.
C5_RunOnDisposedFails ==
    (result.op = "run" /\ disposed[result.node]) => result.err = "NodeDisposed"

\* C9: dispose() twice is dispose() once: from every reachable state the
\* second call raises nothing and changes nothing, and the node is left with
\* empty buffers and a closed file.
C9_DisposeIdempotent ==
    \A n \in Nodes :
        LET once == dispose(NodeState, n)
            twice == dispose([once EXCEPT !.log = <<>>], n)
        IN  /\ once.err = None /\ twice.err = None
            /\ twice.ob = once.ob /\ twice.ib = once.ib
            /\ twice.closed = once.closed /\ twice.ccn = once.ccn
            /\ \A o \in DOMAIN once.ob[n] : once.ob[n][o] = <<>>
            /\ \A i \in DOMAIN once.ib[n] : once.ib[n][i] = <<>>
            /\ once.closed[n]

\* dispose() has just been called on a node that was disposed before, after
\* the node had generated its data.
C9_Witness ==
    /\ result.op = "dispose" /\ result.arg = TRUE
    /\ channel_column_names[result.node] # parameters_channel_column_names(result.node)

----------------------------------------------------------------------------
(* Construction: claim C7. *)

\* The fields every CSVFile configuration is to hold.
RequiredFields ==
    {"type", "name", "buffer_options", "outputs", "sampling_frequency", "file_path"}

\* The valid configuration record without the field f.
ValidWithout(f) == [g \in (DOMAIN ValidParameters) \ {f} |-> ValidParameters[g]]

\* C7: constructing a node from an otherwise valid configuration without a
\* required field f fails with a MissingParameter error that names f, and
\* constructs no node.
C7_MissingFieldNamed ==
    \A f \in RequiredFields :
        (constructed.done /\ parameters = ValidWithout(f)) =>
            (constructed.err = MissingParameterError(f) /\ ~constructed.node)

----------------------------------------------------------------------------
(* Configuration: claim C10. *)

Accessors == {"get_root_nodes", "get_common_nodes"}

\* C10 as written: the file is read only on the first accessor call since the
\* start or since the latest reset_config.
C10_ReadOnlyOnFirstCall ==
    (cfg_result.op \in Accessors /\ cfg_result.read) => accessor_calls = 1

\* C10 as amended, on the call: an accessor call reads the file exactly when
\* no document is cached (and there is a file), which is the case on the first
\* call since the start or the latest reset; with a document cached, it
\* answers from the cached document.
C10_ReadsWhenNothingCached ==
    cfg_result.op \in Accessors =>
        /\ cfg_result.read <=> (~cfg_result.cached /\ disk # "absent")
        /\ (accessor_calls = 1 /\ disk # "absent") => cfg_result.read
        /\ cfg_result.cached =>
              /\ config # JsonNone
              /\ cfg_result.err = (IF config.has_nodes THEN None ELSE "KeyError")
              /\ config.has_nodes =>
                    cfg_result.value = (IF cfg_result.op = "get_root_nodes"
                                        THEN config.root ELSE config.common)

\* C10 as amended, on the step: a cached document is replaced by nothing but
\* reset_config, which empties the cache.
C10_OnlyResetInvalidates ==
    (config # JsonNone /\ config' # config) =>
        (cfg_result'.op = "reset_config" /\ config' = JsonNone)

\* C10 as amended: between resets at most one document is loaded, the file
\* being read on an accessor call exactly while no document is cached.
C10_LoadsOncePerReset == []C10_ReadsWhenNothingCached /\ [][C10_OnlyResetInvalidates]_vars

\* An accessor call answered from the cached document although the file has
\* been rewritten since the load.
C10_Witness ==
    /\ cfg_result.op = "get_root_nodes"
    /\ cfg_result.cached /\ ~cfg_result.read /\ cfg_result.err = None
    /\ cfg_result.value = "root1" /\ disk = "doc2"

----------------------------------------------------------------------------
(* Errors in a traversal: claims C11 and C13. *)

\* The calls of the log that have not returned.
Unreturned ==
    {i \in CallEvents : ~\E r \in 1..Len(log) : log[r].ev = "ret" /\ log[r].id = i}

\* The edges of a node in the order _call_children visits them.
EdgesOf(n) == EdgesOn(n, OUTPUT_MAIN) \o EdgesOn(n, OUTPUT_TIMESTAMP)

\* The position of the last call a frame made.
LastChildCall(i) ==
    CHOOSE j \in CallEvents :
        /\ log[j].parent = i
        /\ \A k \in CallEvents : log[k].parent = i => k <= j

\* C11: an error of a node's step aborts the whole pass: the run ends with
\* the error exactly when a frame did not return; the frame that failed is the
\* last event of the log (nothing is called or retried after it), the frames
\* that did not return are its ancestors up to the root, none of which returns
\* normally, and each of them stopped at the edge that failed, the edges after
\* it never called.
C11_ErrorAbortsPass ==
    result.op = "run" =>
        /\ (result.err # None) <=> (Unreturned # {})
        /\ Unreturned # {} =>
              /\ Len(log) \in Unreturned
              /\ 1 \in Unreturned
              /\ \A i \in Unreturned \ {1} : log[i].parent \in Unreturned
              /\ \A i \in Unreturned \ {Len(log)} :
                    /\ ChildCalls(i) # <<>>
                    /\ ChildCalls(i) = SubSeq(EdgesOf(log[i].node), 1, Len(ChildCalls(i)))
                    /\ LastChildCall(i) \in Unreturned

\* A run in which a child below the root failed while a later edge of the
\* root was waiting, which was then never called.
C11_Witness ==
    /\ result.op = "run" /\ result.err = "KeyError"
    /\ Len(log) > 1
    /\ Len(ChildCalls(1)) < Len(EdgesOf(log[1].node))

\* C13: no run() of a node whose construction succeeded fails because of a
\* configuration value.
C13_NoRunFailsOnConfiguration ==
    (result.op = "run" /\ constructed.done /\ constructed.node) => result.err = None

----------------------------------------------------------------------------
(* The data a source generates: claim C12. *)

\* The samples of a channel of a buffer, none when the channel is absent.
ChannelOf(fd, c) == IF c \in DOMAIN fd THEN fd[c] ELSE <<>>

\* The position of a column in the header of a node's file.
ColumnIndex(n, c) == CHOOSE k \in 1..Len(csv_header(n)) : csv_header(n)[k] = c

\* The channel columns of a node: the configured ones, or all of the header.
ChannelColumns(n) ==
    IF channel_column_names[n] = None THEN SeqToSet(csv_header(n))
    ELSE SeqToSet(channel_column_names[n])

\* C12, on the step: the run that reads a node's file (the node's first run,
\* as the root or as a child) leaves in "main", for each channel column, the
\* values of that column of all the rows in row order and no other channel,
\* in "timestamp" the row indices 0..n-1 in order, and the file closed; and
\* the first run of a node does read its file.
C12_FirstRun ==
    \A n \in Nodes :
        /\ (result'.op = "run" /\ result'.node = n /\ ~csv_closed[n]) => csv_closed'[n]
        /\ (result'.op = "run" /\ ~csv_closed[n] /\ csv_closed'[n]) =>
              /\ \A c \in ChannelColumns(n) :
                    ChannelOf(output_buffer'[n][OUTPUT_MAIN], c) =
                        [r \in 1..Len(csv_file[n]) |-> float(csv_file[n][r][ColumnIndex(n, c)])]
              /\ (DOMAIN output_buffer'[n][OUTPUT_MAIN]) \subseteq ChannelColumns(n)
              /\ ChannelOf(output_buffer'[n][OUTPUT_TIMESTAMP], DEFAULT_CHANNEL) =
                        [r \in 1..Len(csv_file[n]) |-> r - 1]
              /\ (DOMAIN output_buffer'[n][OUTPUT_TIMESTAMP]) \subseteq {DEFAULT_CHANNEL}

\* C12: after the first run() of a source over n rows, "main" holds the n
\* values of each channel column in row order, "timestamp" holds 0..n-1, and
\* the file is closed.
C12_GeneratedData == [][C12_FirstRun]_vars

\* The first run of a source over two rows of two columns has ended.
C12_Witness ==
    /\ result.op = "run" /\ result.err = None
    /\ csv_closed[result.node]
    /\ output_buffer[result.node][OUTPUT_MAIN] = [ch1 |-> <<10, 20>>, ch2 |-> <<11, 21>>]
    /\ output_buffer[result.node][OUTPUT_TIMESTAMP] = [data |-> <<0, 1>>]

----------------------------------------------------------------------------
(* The sampling frequency: claim C14. *)

\* The value is a number strictly greater than 0.
IsPositiveNumber(v) == v.type \in {"int", "float"} /\ v.text \in {"250"}

\* C14: a CSVFile is constructed only from a sampling_frequency that is a
\* number strictly greater than 0; any other value ends the constructor with
\* InvalidParameterValue naming sampling_frequency.
C14_SamplingFrequencyPositive ==
    (constructed.done /\ "sampling_frequency" \in DOMAIN parameters
        /\ ~IsPositiveNumber(parameters["sampling_frequency"])) =>
            /\ ~constructed.node
            /\ constructed.err.kind = "InvalidParameterValue"
            /\ constructed.err.parameter = "sampling_frequency"

----------------------------------------------------------------------------
(* Cycles: claim C15. *)

\* The nodes a node propagates to: its children, if its gate is open.
PropagatesTo(n) ==
    IF has_data(output_buffer[n][OUTPUT_TIMESTAMP]) THEN ChildNodes(n) ELSE {}

\* The nodes reached from the set S through at most `steps` more propagations.
RECURSIVE PropagationFrom(_, _)
PropagationFrom(S, steps) ==
    IF steps = 0 THEN S
    ELSE PropagationFrom(S \cup UNION {PropagatesTo(m) : m \in S}, steps - 1)

\* A run of n enters a cycle of propagating nodes.
PropagatingCycle(n) ==
    \E m \in PropagationFrom({n}, Cardinality(Nodes)) :
        m \in PropagationFrom(PropagatesTo(m), Cardinality(Nodes))

----------------------------------------------------------------------------
(* What a child is handed: claim C16. *)

\* C16, on the log: every child is handed the whole content of the output
\* buffer its edge is on, and a child that merges what it is handed holds a
\* sample once more with each call: twice after two.
C16_WholeBufferHandedOver ==
    (result.op = "run" /\ result.err = None) =>
        \A j \in CallEvents :
            log[j].parent # 0 =>
                /\ log[j].data = output_buffer[log[log[j].parent].node][log[j].output]
                /\ \A c \in DOMAIN log[j].data :
                      extend(extend(FrameworkData, log[j].data), log[j].data)[c]
                          = log[j].data[c] \o log[j].data[c]

\* C16, on the step: a run() of a source whose file is closed already adds
\* nothing to its output buffers, and with its gate open calls every child
\* again, once per edge.
C16_ClosedSourcePropagatesAgain ==
    \A n \in Nodes :
        (result'.op = "run" /\ result'.node = n /\ csv_closed[n]) =>
            /\ output_buffer'[n] = output_buffer[n]
            /\ has_data(output_buffer[n][OUTPUT_TIMESTAMP]) => ChildCalls(1)' = EdgesOf(n)'

\* C16: propagation delivers the whole accumulated output buffer, also when
\* the step of the run added nothing to it.
C16_WholeBufferEveryRun ==
    []C16_WholeBufferHandedOver /\ [][C16_ClosedSourcePropagatesAgain]_vars

\* A node was called twice in one pass; its second call, its file closed by
\* the first, handed its child the same samples once more.
C16_Witness ==
    /\ result.op = "run" /\ result.err = None
    /\ \E j1 \in CallEvents, j2 \in CallEvents, k1 \in CallEvents, k2 \in CallEvents :
         /\ j1 < j2 /\ log[j1].node = log[j2].node
         /\ log[k1].parent = j1 /\ log[k2].parent = j2
         /\ log[k1].output = log[k2].output
         /\ log[k1].data = log[k2].data
         /\ has_data(log[k1].data)

----------------------------------------------------------------------------
(* A child bound through several edges: claim C17. *)

\* The calls a frame made to one child.
CallsTo(i, c) == {j \in CallEvents : log[j].parent = i /\ log[j].node = c}

\* The number of edges from a node to one child, over all its outputs.
EdgesTo(n, c) == Cardinality({k \in 1..Len(EdgesOf(n)) : EdgesOf(n)[k].node = c})

\* C17: a child is run once per edge: a frame whose gate is open calls a
\* child bound through k edges exactly k times, and each of these calls, with
\* all the calls below it, has returned before the next of them begins.
C17_OncePerEdge ==
    (result.op = "run" /\ result.err = None) =>
        \A i \in CallEvents : \A c \in Nodes :
            /\ has_data(output_buffer[log[i].node][OUTPUT_TIMESTAMP]) =>
                  Cardinality(CallsTo(i, c)) = EdgesTo(log[i].node, c)
            /\ \A j1 \in CallsTo(i, c), j2 \in CallsTo(i, c) :
                  j1 < j2 =>
                      \A k \in CallEvents : (j1 <= k /\ k < j2) => ReturnedBefore(k, j2)

\* A child bound through an edge on each output was called twice in one run
\* of its parent, and called a child of its own in its first call.
C17_Witness ==
    /\ result.op = "run" /\ result.err = None
    /\ \E c \in Nodes :
         \E j1 \in CallsTo(1, c), j2 \in CallsTo(1, c) :
            /\ j1 < j2
            /\ log[j1].output = OUTPUT_MAIN /\ log[j2].output = OUTPUT_TIMESTAMP
            /\ \E k \in CallEvents : log[k].parent = j1
            /\ Cardinality(CallsTo(1, c)) = 2

----------------------------------------------------------------------------
(* The file handle: claim C18. *)

\* Some channel of some output buffer of n holds more samples after the step.
OutputGrows(n) ==
    \E o \in DOMAIN output_buffer[n] : \E c \in DOMAIN output_buffer'[n][o] :
        Len(ChannelOf(output_buffer'[n][o], c)) > Len(ChannelOf(output_buffer[n][o], c))

\* C18, on the state: while the file of a node is open, the node has neither
\* generated data nor been disposed.
C18_OpenUntilGenerationOrDispose ==
    \A n \in Nodes :
        ~csv_closed[n] =>
            /\ ~disposed[n]
            /\ \A o \in DOMAIN output_buffer[n] : output_buffer[n][o] = FrameworkData

\* C18, on the step: a closed file stays closed; a file is closed by a step
\* that runs or disposes its node; output buffers grow in no step but the one
\* that closes the file, so never after it.
C18_ClosedForGood ==
    \A n \in Nodes :
        /\ csv_closed[n] => csv_closed'[n]
        /\ (~csv_closed[n] /\ csv_closed'[n]) =>
              \E k \in 1..Len(log') : log'[k].node = n /\ log'[k].ev \in {"call", "dispose"}
        /\ OutputGrows(n) => (~csv_closed[n] /\ csv_closed'[n] /\ result'.op = "run")

\* C18: the file handle is closed monotonically, data is generated at most
\* once and the output buffers never grow after the handle is closed.
C18_HandleClosedMonotonically ==
    []C18_OpenUntilGenerationOrDispose /\ [][C18_ClosedForGood]_vars

\* A node with rows to read was disposed before it had read them, and was
\* run afterwards: its file is closed still and it has generated nothing.
C18_Witness ==
    /\ result.op = "run" /\ result.err = None
    /\ disposed[result.node] /\ csv_closed[result.node]
    /\ csv_file[result.node] # <<>>
    /\ output_buffer[result.node][OUTPUT_MAIN] = FrameworkData

----------------------------------------------------------------------------
(* The buffers: claim C19. *)

\* The buffer after the step holds, channel by channel, what it held before
\* as a prefix.
KeepsSamples(before, after) ==
    \A c \in DOMAIN before :
        /\ c \in DOMAIN after
        /\ Len(after[c]) >= Len(before[c])
        /\ SubSeq(after[c], 1, Len(before[c])) = before[c]

\* C19, on the step: a run() or an add_child() removes and reorders no sample
\* of any input or output buffer of any node.
C19_RunAndAddChildKeepSamples ==
    result'.op \in {"run", "add_child"} =>
        \A n \in Nodes :
            /\ DOMAIN output_buffer'[n] = DOMAIN output_buffer[n]
            /\ DOMAIN input_buffer'[n] = DOMAIN input_buffer[n]
            /\ \A o \in DOMAIN output_buffer[n] :
                  KeepsSamples(output_buffer[n][o], output_buffer'[n][o])
            /\ \A i \in DOMAIN input_buffer[n] :
                  KeepsSamples(input_buffer[n][i], input_buffer'[n][i])

\* C19, on the state: dispose() leaves the node an empty buffer, one without
\* data, for each declared output and input.
C19_DisposeEmpties ==
    result.op = "dispose" =>
        /\ DOMAIN output_buffer[result.node] = SeqToSet(get_outputs(result.node))
        /\ DOMAIN input_buffer[result.node] = SeqToSet(get_inputs(result.node))
        /\ \A o \in DOMAIN output_buffer[result.node] :
              /\ output_buffer[result.node][o] = FrameworkData
              /\ ~has_data(output_buffer[result.node][o])
        /\ \A i \in DOMAIN input_buffer[result.node] :
              /\ input_buffer[result.node][i] = FrameworkData
              /\ ~has_data(input_buffer[result.node][i])

\* C19: buffers are emptied only by disposal.
C19_EmptiedOnlyByDisposal ==
    []C19_DisposeEmpties /\ [][C19_RunAndAddChildKeepSamples]_vars

\* The first dispose() of a node that had read rows of its file, which its
\* buffers held until then.
C19_Witness ==
    /\ result.op = "dispose" /\ result.arg = FALSE
    /\ channel_column_names[result.node] # None
    /\ parameters_channel_column_names(result.node) = None
    /\ csv_closed[result.node]
    /\ output_buffer[result.node][OUTPUT_TIMESTAMP] = FrameworkData

----------------------------------------------------------------------------
(* The frame of add_child: claim C20. *)

\* The edge list of output o of node p got one edge at its end.
OneEdgeAppended(p, o) ==
    /\ Len(children'[p][o]) = Len(children[p][o]) + 1
    /\ SubSeq(children'[p][o], 1, Len(children[p][o])) = children[p][o]

\* C20, on the step: an add_child that fails leaves the edge registry and
\* the reverse map as they were; one that succeeds appends one edge to the
\* list of one output and leaves every other edge list and every buffer as
\* it was.
C20_FailsWhollyOrAppendsOne ==
    result'.op = "add_child" =>
        /\ result'.err # None =>
              /\ children' = children
              /\ child_input_relation' = child_input_relation
        /\ result'.err = None =>
              \E p \in Nodes : \E o \in DOMAIN children[p] :
                  /\ OneEdgeAppended(p, o)
                  /\ \A q \in Nodes : \A r \in DOMAIN children[q] :
                        <<q, r>> # <<p, o>> => children'[q][r] = children[q][r]
        /\ output_buffer' = output_buffer
        /\ input_buffer' = input_buffer

\* C20: add_child is atomic on failure and local on success.
C20_AtomicAndLocal == [][C20_FailsWhollyOrAppendsOne]_vars

====
